---- MODULE Spec2Model ----
(***************************************************************************)
(* Model of the two pipelines of the repository:                           *)
(*   - Text_Generation/GPT2_TitleGen/data_process.py: the feature builder  *)
(*     (convert_feature), the cached dataset constructor (__init__,        *)
(*     load_data) and the batch collation (collate_func);                  *)
(*   - NMT/Transformers_NMT/transformer/decoder.py: the beam search        *)
(*     (Decoder.recognize_beam).                                           *)
(* Python lists are sequences, dicts are records, a raised exception is a  *)
(* result marked raised.                                                   *)
(***************************************************************************)
EXTENDS Integers, Sequences, FiniteSets, TLC

VARIABLES
    \* ---- convert_feature applied to one sample (SpecFeature)
    self,            \* the dataset object's fields: tokenizer, max_len, title_max_len
    sample,          \* the raw record {"content", "title"}
    feature,         \* what convert_feature did, NotCalled before the call
    \* ---- GPT2NewsTitleDataSet constructions over one data_dir (SpecCache)
    files,           \* the cache files of data_dir: path -> content, absent paths not in DOMAIN
    built,           \* the last construction: its arguments and what it did
    nbuilt,          \* constructions made so far
    \* ---- collate_func applied to one batch (SpecCollate)
    batch_data,      \* the list of feature records handed to collate_func
    collated,        \* what collate_func returned, NotCalled before the call
    \* ---- Decoder.recognize_beam (SpecBeam, SpecToy)
    cfg,             \* search params and decoder: beam, nbest, maxlen, n_tgt_vocab, decoder
    pc,              \* position in recognize_beam
    i,               \* the step of "for i in range(maxlen)"
    h,               \* the position of "for hyp in hyps" (1-based)
    hyps,            \* the active hypotheses
    hyps_best_kept,  \* the candidates kept so far in this step
    ended_hyps,      \* the ended hypotheses
    nbest_hyps,      \* the returned list, <<>> before the return
    cands            \* history: every candidate generated in this step, in order

featVars == <<self, sample, feature>>
cacheVars == <<files, built, nbuilt>>
collateVars == <<batch_data, collated>>
beamVars == <<cfg, pc, i, h, hyps, hyps_best_kept, ended_hyps, nbest_hyps, cands>>
vars == <<self, sample, feature, files, built, nbuilt, batch_data, collated,
          cfg, pc, i, h, hyps, hyps_best_kept, ended_hyps, nbest_hyps, cands>>

\* A call not made yet.
NotCalled == [called |-> FALSE]

Min(a, b) == IF a <= b THEN a ELSE b
Max(a, b) == IF a >= b THEN a ELSE b

\* Python's s[:n]: a negative n counts from the end of the list.
SliceTo(s, n) ==
    IF n >= 0 THEN SubSeq(s, 1, Min(n, Len(s)))
    ELSE SubSeq(s, 1, Max(Len(s) + n, 0))

\* Python's [x] * n
Repeat(x, n) == [k \in 1..Max(n, 0) |-> x]

MaxOf(S) == IF S = {} THEN 0 ELSE CHOOSE m \in S : \A x \in S : x <= m

(***************************************************************************)
(* The tokenizer: an input of the constructor.  A vocabulary file is a     *)
(* list of tokens, the id of a token is its 0-based line in the file.      *)
(***************************************************************************)
Letters == <<"a", "b", "c", "d", "e", "f", "g", "h", "i", "j", "k", "l">>

VocabA == <<"[PAD]", "[UNK]", "[CLS]", "[SEP]", "[Content]", "[Title]", "[Space]">> \o Letters
VocabB == <<"[PAD]", "[Space]", "[Title]", "[Content]", "[UNK]", "[SEP]", "[CLS]">> \o Letters
Tokenizers == {VocabA, VocabB}

convert_token_to_id(tokenizer, token) ==
    IF \E k \in 1..Len(tokenizer) : tokenizer[k] = token
    THEN (CHOOSE k \in 1..Len(tokenizer) : tokenizer[k] = token) - 1
    ELSE (CHOOSE k \in 1..Len(tokenizer) : tokenizer[k] = "[UNK]") - 1

convert_tokens_to_ids(tokenizer, tokens) ==
    [k \in 1..Len(tokens) |-> convert_token_to_id(tokenizer, tokens[k])]

cls_token_id(tokenizer) == convert_token_to_id(tokenizer, "[CLS]")
sep_token_id(tokenizer) == convert_token_to_id(tokenizer, "[SEP]")
content_id(tokenizer) == convert_token_to_id(tokenizer, "[Content]")
title_id(tokenizer) == convert_token_to_id(tokenizer, "[Title]")

\* A text is a list of characters.  sample["title"].replace(" ", "[Space]")
replace_space(text) == [k \in 1..Len(text) |-> IF text[k] = " " THEN "[Space]" ELSE text[k]]

\* tokenizer.tokenize: one token per character, whitespace dropped, the
\* registered token [Space] kept whole.
tokenize(text) == SelectSeq(text, LAMBDA c : c # " ")

(***************************************************************************)
(* GPT2NewsTitleDataSet.convert_feature                                    *)
(***************************************************************************)
title_tokens_of(slf, smp) ==
    LET toks == tokenize(replace_space(smp.title))
    IN  IF Len(toks) > slf.title_max_len THEN SliceTo(toks, slf.title_max_len) ELSE toks

content_tokens_of(slf, smp) ==
    LET toks == tokenize(smp.content)
        room == slf.max_len - Len(title_tokens_of(slf, smp)) - 3
    IN  IF Len(toks) > room THEN SliceTo(toks, room) ELSE toks

\* A faulty variant: the first [SEP] tagged as part of the title
token_type_of_first_sep_title(slf) == title_id(slf.tokenizer)

token_type_of_first_sep(slf) == content_id(slf.tokenizer)

convert_feature(slf, smp) ==
    LET tk == slf.tokenizer
        title_tokens == title_tokens_of(slf, smp)
        content_tokens == content_tokens_of(slf, smp)
        input_ids == <<cls_token_id(tk)>>
                     \o convert_tokens_to_ids(tk, content_tokens)
                     \o <<sep_token_id(tk)>>
                     \o convert_tokens_to_ids(tk, title_tokens)
                     \o <<sep_token_id(tk)>>
        token_type_ids == <<content_id(tk)>>
                     \o Repeat(content_id(tk), Len(content_tokens))
                     \o <<token_type_of_first_sep(slf)>>
                     \o Repeat(title_id(tk), Len(title_tokens))
                     \o <<title_id(tk)>>
    IN  [called |-> TRUE,
         raised |-> ~(Len(input_ids) = Len(token_type_ids)) \/ ~(Len(input_ids) <= slf.max_len),
         input_ids |-> input_ids,
         token_type_ids |-> token_type_ids]

(***************************************************************************)
(* Samples: a content of n characters and a title of m characters, the     *)
(* second character of a title being a space.                              *)
(***************************************************************************)
MaxContent == 10
MaxTitle == 4
MaxLenCfg == 20
MaxTitleCfg == 4

Letter(k) == Letters[((k - 1) % Len(Letters)) + 1]
ContentText(n) == [k \in 1..n |-> Letter(k)]
TitleText(m) == [k \in 1..m |-> IF k = 2 THEN " " ELSE Letter(Len(Letters) + 1 - k)]
Sample(n, m) == [content |-> ContentText(n), title |-> TitleText(m)]

NoSelf == [tokenizer |-> <<>>, max_len |-> 0, title_max_len |-> 0]
NoCfg == [beam |-> 0, nbest |-> 0, maxlen |-> 0, n_tgt_vocab |-> 0, decoder |-> "none"]

IdleFeature == self = NoSelf /\ sample = Sample(0, 0) /\ feature = NotCalled
IdleCache == files = <<>> /\ built = NotCalled /\ nbuilt = 0
IdleCollate == batch_data = <<>> /\ collated = NotCalled
IdleBeam ==
    /\ cfg = NoCfg /\ pc = "idle" /\ i = 0 /\ h = 0
    /\ hyps = <<>> /\ hyps_best_kept = <<>> /\ ended_hyps = <<>>
    /\ nbest_hyps = <<>> /\ cands = <<>>

InitFeature ==
    \* a max_len below 3 has no room for [CLS] and the two [SEP]
    /\ \E tk \in Tokenizers, ml \in 3..MaxLenCfg, tml \in 0..MaxTitleCfg :
           self = [tokenizer |-> tk, max_len |-> ml, title_max_len |-> tml]
    /\ \E n \in 0..MaxContent, m \in 0..MaxTitle : sample = Sample(n, m)
    /\ feature = NotCalled
    /\ IdleCache /\ IdleCollate /\ IdleBeam

ConvertFeature ==
    /\ ~feature.called
    /\ feature' = convert_feature(self, sample)
    /\ UNCHANGED <<self, sample>>
    /\ UNCHANGED cacheVars /\ UNCHANGED collateVars /\ UNCHANGED beamVars

NextFeature == ConvertFeature
SpecFeature == InitFeature /\ [][NextFeature]_vars

\* C1 (as claimed): for every sample and every configuration convert_feature
\* returns input_ids and token_type_ids of equal length at most max_len:
\* neither assertion fails.
C1_AssertionsNeverFail ==
    feature.called =>
        /\ ~feature.raised
        /\ Len(feature.input_ids) = Len(feature.token_type_ids)
        /\ Len(feature.input_ids) <= self.max_len

RECURSIVE str(_)
str(n) ==
    LET digits == <<"0", "1", "2", "3", "4", "5", "6", "7", "8", "9">>
    IN  IF n < 10 THEN digits[n + 1] ELSE str(n \div 10) \o digits[(n % 10) + 1]

os_path_join(dir, name) == dir \o "/" \o name

cached_feature_file(data_dir, data_set_name, maxlen_arg) ==
    os_path_join(data_dir, "cached_" \o data_set_name \o "_" \o str(maxlen_arg))

DataDir == "data_dir"

\* json.load of the raw files
RawFiles == {"train.json", "dev.json"}
json_load(path_file) ==
    IF path_file = "train.json" THEN <<Sample(3, 2), Sample(1, 3)>> ELSE <<Sample(2, 1)>>

load_data(slf, path_file) ==
    LET data == json_load(path_file)
        feats == [k \in 1..Len(data) |-> convert_feature(slf, data[k])]
    IN  [raised |-> \E k \in 1..Len(data) : feats[k].raised,
         data_set |-> [k \in 1..Len(data) |->
                          [input_ids |-> feats[k].input_ids,
                           token_type_ids |-> feats[k].token_type_ids]]]

torch_save(fs, path, obj) ==
    [p \in (DOMAIN fs) \cup {path} |-> IF p = path THEN obj ELSE fs[p]]
torch_load(fs, path) == fs[path]
os_path_exists(fs, path) == path \in DOMAIN fs

MaxBuilds == 3
CacheMaxLens == {4, 14}
CacheTitleLens == {1, 2}
DataSetNames == {"t", "t_1"}
NoFile == [data_set |-> <<>>]

InitCache ==
    /\ files = [p \in {} |-> NoFile]
    /\ built = NotCalled
    /\ nbuilt = 0
    /\ IdleFeature /\ IdleCollate /\ IdleBeam

Construct(tokenizer, maxlen_arg, title_max_len, data_set_name, path_file, is_overwrite) ==
    LET slf == [tokenizer |-> tokenizer, max_len |-> maxlen_arg, title_max_len |-> title_max_len]
        path == cached_feature_file(DataDir, data_set_name, maxlen_arg)
        existed == os_path_exists(files, path)
        loaded == load_data(slf, path_file)
        call == [called |-> TRUE, tokenizer |-> tokenizer, max_len |-> maxlen_arg,
                 title_max_len |-> title_max_len, data_set_name |-> data_set_name,
                 path_file |-> path_file, is_overwrite |-> is_overwrite, path |-> path,
                 existed |-> existed,
                 before |-> IF existed THEN files[path] ELSE NoFile]
    IN  /\ nbuilt < MaxBuilds
        /\ nbuilt' = nbuilt + 1
        /\ IF existed /\ ~is_overwrite
           THEN /\ built' = [call EXCEPT !.called = TRUE] @@
                            [raised |-> FALSE, read_raw |-> FALSE, wrote_cache |-> FALSE,
                             data_set |-> torch_load(files, path).data_set]
                /\ files' = files
           ELSE IF loaded.raised
           THEN \* the AssertionError of convert_feature leaves __init__
                /\ built' = call @@
                            [raised |-> TRUE, read_raw |-> TRUE, wrote_cache |-> FALSE,
                             data_set |-> <<>>]
                /\ files' = files
           ELSE /\ built' = call @@
                            [raised |-> FALSE, read_raw |-> TRUE, wrote_cache |-> TRUE,
                             data_set |-> loaded.data_set]
                /\ files' = torch_save(files, path, [data_set |-> loaded.data_set])
        /\ UNCHANGED featVars /\ UNCHANGED collateVars /\ UNCHANGED beamVars

NextCache ==
    \E tokenizer \in Tokenizers, maxlen_arg \in CacheMaxLens, title_max_len \in CacheTitleLens,
       data_set_name \in DataSetNames, path_file \in RawFiles, is_overwrite \in BOOLEAN :
        Construct(tokenizer, maxlen_arg, title_max_len, data_set_name, path_file, is_overwrite)

SpecCache == InitCache /\ [][NextCache]_vars

\* C6 (as claimed): a construction with is_overwrite false whose cache file
\* exists returns the stored data without reading the raw file or writing the
\* cache; every other construction reprocesses the raw file and leaves the
\* cache file holding exactly the data it returns.
C6_CacheContract ==
    built.called =>
        IF built.existed /\ ~built.is_overwrite
        THEN /\ ~built.raised
             /\ built.data_set = built.before.data_set
             /\ ~built.read_raw /\ ~built.wrote_cache
             /\ files[built.path] = built.before
        ELSE /\ built.read_raw
             /\ ~built.raised
             /\ os_path_exists(files, built.path)
             /\ files[built.path] = [data_set |-> built.data_set]

\* The contract of C6 with the constructions that raise set aside: what is
\* left of it once convert_feature's assertion fails.
CacheContractUnlessRaised == built.called => (built.raised \/ C6_CacheContract)

(***************************************************************************)
(* collate_func.  A 1-D tensor is a sequence, a batch x time tensor a      *)
(* sequence of rows.                                                       *)
(***************************************************************************)
torch_tensor(list) == list

\* A faulty variant: the padding put before the sequence
pad_sequence_left(sequences, padding_value) ==
    LET max_len_batch == MaxOf({Len(sequences[b]) : b \in 1..Len(sequences)})
    IN  [b \in 1..Len(sequences) |->
            Repeat(padding_value, max_len_batch - Len(sequences[b])) \o sequences[b]]

\* torch.nn.utils.rnn.pad_sequence(sequences, batch_first=True, padding_value)
pad_sequence(sequences, padding_value) ==
    LET max_len_batch == MaxOf({Len(sequences[b]) : b \in 1..Len(sequences)})
    IN  [b \in 1..Len(sequences) |->
            sequences[b] \o Repeat(padding_value, max_len_batch - Len(sequences[b]))]

EmptyDict == [k \in {} |-> <<>>]

collate_func(batch) ==
    LET batch_size == Len(batch)
        input_ids_list == [b \in 1..batch_size |-> torch_tensor(batch[b].input_ids)]
        token_type_ids_list == [b \in 1..batch_size |-> torch_tensor(batch[b].token_type_ids)]
    IN  IF batch_size = 0
        THEN EmptyDict
        ELSE [input_ids |-> pad_sequence(input_ids_list, 0),
              token_type_ids |-> pad_sequence(token_type_ids_list, 0)]

MaxBatch == 3
MaxBatchContent == 2
MaxBatchTitle == 2
BatchMaxLens == {4, 5, 7}

\* The feature records of a dataset built with slf: what load_data keeps of a
\* sample whose conversion does not raise.
FeatureRecords(slf) ==
    LET feats == {convert_feature(slf, Sample(n, m)) :
                     n \in 0..MaxBatchContent, m \in 0..MaxBatchTitle}
    IN  {[input_ids |-> f.input_ids, token_type_ids |-> f.token_type_ids] :
            f \in {g \in feats : ~g.raised}}

InitCollate ==
    /\ \E mlen \in BatchMaxLens, n \in 0..MaxBatch :
           LET slf == [tokenizer |-> VocabA, max_len |-> mlen, title_max_len |-> MaxBatchTitle]
           IN  batch_data \in [1..n -> FeatureRecords(slf)]
    /\ collated = NotCalled
    /\ IdleFeature /\ IdleCache /\ IdleBeam

Collate ==
    /\ ~collated.called
    /\ collated' = [called |-> TRUE, value |-> collate_func(batch_data)]
    /\ UNCHANGED batch_data
    /\ UNCHANGED featVars /\ UNCHANGED cacheVars /\ UNCHANGED beamVars

NextCollate == Collate
SpecCollate == InitCollate /\ [][NextCollate]_vars

\* Rows x columns of a batch x time tensor whose rows all have `t` entries.
HasShape(tensor, b, t) == Len(tensor) = b /\ \A r \in 1..b : Len(tensor[r]) = t

\* C8: collate_func returns an empty mapping for an empty batch; for a
\* non-empty batch input_ids and token_type_ids both have the shape
\* batch x (length of the longest record), and each row is the record's
\* sequence unchanged, followed only by 0 up to the batch maximum.
C8_Collate ==
    collated.called =>
        LET out == collated.value
            n == Len(batch_data)
            longest == MaxOf({Len(batch_data[b].input_ids) : b \in 1..n})
            RowOf(row, seq) ==
                /\ \A k \in 1..Len(seq) : row[k] = seq[k]
                /\ \A k \in (Len(seq) + 1)..longest : row[k] = 0
        IN  IF n = 0
            THEN DOMAIN out = {}
            ELSE /\ DOMAIN out = {"input_ids", "token_type_ids"}
                 /\ HasShape(out.input_ids, n, longest)
                 /\ HasShape(out.token_type_ids, n, longest)
                 /\ \A b \in 1..n :
                        /\ RowOf(out.input_ids[b], batch_data[b].input_ids)
                        /\ RowOf(out.token_type_ids[b], batch_data[b].token_type_ids)

\* C8 witness: a batch of records of different lengths has been collated, so
\* some row is padded and some row is not.
C8_Witness ==
    /\ collated.called
    /\ Len(batch_data) >= 2
    /\ \E a, b \in 1..Len(batch_data) :
           /\ Len(batch_data[a].input_ids) < Len(batch_data[b].input_ids)
           /\ Len(collated.value.input_ids[a]) = Len(batch_data[b].input_ids)
           /\ collated.value.token_type_ids[a][Len(batch_data[b].input_ids)] = 0

(***************************************************************************)
(* Decoder.recognize_beam.  A hypothesis is {'score', 'yseq'}; the 1 x T   *)
(* tensor yseq is the sequence of its T token ids.  A score is a sum of    *)
(* log-probabilities, here of negative integers.                           *)
(***************************************************************************)
sos_id == 0
eos_id == 1

\* search params of the source
beam == 5
nbest == 1
maxlen == 100

\* sorted(list, key=lambda x: x['score'], reverse=True): a stable sort, best
\* first.  An element's place is the number of elements that go before it:
\* those of a higher score, and those of the same score that precede it.
sorted_by_score(list) ==
    LET n == Len(list)
        place == [p \in 1..n |->
                     1 + Cardinality({q \in 1..n :
                             \/ list[q].score > list[p].score
                             \/ (list[q].score = list[p].score /\ q < p)})]
    IN  [r \in 1..n |-> list[CHOOSE p \in 1..n : place[p] = r]]

\* torch.topk(local_scores, beam, dim=1) of the log-softmax over the
\* vocabulary: `n` pairs of distinct ids, best score first.
IsTopk(best, n) ==
    /\ \A a, b \in 1..n : a < b => (best[a].id # best[b].id /\ best[a].score >= best[b].score)

MaxCost == 3
LocalScores == {0 - c : c \in 1..MaxCost}

AnyTopk(n_tgt_vocab, n) ==
    {best \in [1..n -> [id : 0..(n_tgt_vocab - 1), score : LocalScores]] : IsTopk(best, n)}

\* A deterministic decoder that ranks end-of-sequence highest at step 1:
\* the ids in the order `order`, the j-th with log-probability -j.
RankedIds(ys, n_tgt_vocab, decoder) ==
    LET ids == [k \in 1..n_tgt_vocab |-> k - 1]
        others == SelectSeq(ids, LAMBDA x : x # eos_id)
        last == ys[Len(ys)]
    IN  IF Len(ys) = 1 \/ decoder = "eos_first" THEN <<eos_id>> \o others
        ELSE IF decoder = "eos_last" THEN others \o <<eos_id>>
        ELSE [k \in 1..n_tgt_vocab |-> (last + k) % n_tgt_vocab]

ToyTopk(ys, n_tgt_vocab, decoder, n) ==
    [j \in 1..n |-> [id |-> RankedIds(ys, n_tgt_vocab, decoder)[j], score |-> 0 - j]]

\* What the forward pass and topk may return for the hypothesis ys.
DecoderTopk(c, ys) ==
    IF c.decoder = "any" THEN AnyTopk(c.n_tgt_vocab, c.beam)
    ELSE {ToyTopk(ys, c.n_tgt_vocab, c.decoder, c.beam)}

\* A faulty variant: the new id written over the last token instead of after it
new_hyps_overwrite(hyp, best, n) ==
    [j \in 1..n |-> [score |-> hyp.score + best[j].score,
                     yseq |-> [hyp.yseq EXCEPT ![Len(hyp.yseq)] = best[j].id]]]

\* lines 207-214: the beam extensions of hyp
new_hyps(hyp, best, n) ==
    [j \in 1..n |-> [score |-> hyp.score + best[j].score,
                     yseq |-> Append(hyp.yseq, best[j].id)]]

\* A faulty variant: the cut without the sort
prune_unsorted(kept, n) == SliceTo(kept, n)

\* lines 216-218
prune(kept, n) == SliceTo(sorted_by_score(kept), n)

\* A faulty variant: the final loop taken to be step maxlen, which the loop never runs
add_eos_late(list, step, steps) ==
    IF step = steps
    THEN [k \in 1..Len(list) |-> [list[k] EXCEPT !.yseq = Append(@, eos_id)]]
    ELSE list

\* lines 222-227: end-of-sequence appended in the final loop
add_eos(list, step, steps) ==
    IF step = steps - 1
    THEN [k \in 1..Len(list) |-> [list[k] EXCEPT !.yseq = Append(@, eos_id)]]
    ELSE list

\* A faulty variant: the first token tested instead of the last
is_ended_first(hyp) == hyp.yseq[1] = eos_id

\* line 233
is_ended(hyp) == hyp.yseq[Len(hyp.yseq)] = eos_id

\* A faulty variant: the cut without the sort
select_nbest_unsorted(ended, n) == SliceTo(ended, Min(Len(ended), n))

\* lines 241-242
select_nbest(ended, n) == SliceTo(sorted_by_score(ended), Min(Len(ended), n))

StartBeam(c) ==
    /\ cfg = c
    /\ pc = "for_i"
    /\ i = 0
    /\ h = 0
    /\ hyps = <<[score |-> 0, yseq |-> <<sos_id>>]>>
    /\ hyps_best_kept = <<>>
    /\ ended_hyps = <<>>
    /\ nbest_hyps = <<>>
    /\ cands = <<>>

MaxBeam == 2
MaxSteps == 2
MaxNbest == 2
MaxVocab == 3

InitBeam ==
    /\ \E b \in 1..MaxBeam, n \in 1..MaxNbest, m \in 1..MaxSteps, v \in 1..MaxVocab :
           StartBeam([beam |-> b, nbest |-> n, maxlen |-> m, n_tgt_vocab |-> v,
                      decoder |-> "any"])
    /\ IdleFeature /\ IdleCache /\ IdleCollate

ToyVocabs == {4, 5, 6}
ToyDecoders == {"eos_first", "eos_last", "rotate"}

InitToy ==
    /\ \E v \in ToyVocabs, d \in ToyDecoders :
           StartBeam([beam |-> beam, nbest |-> nbest, maxlen |-> maxlen, n_tgt_vocab |-> v,
                      decoder |-> d])
    /\ IdleFeature /\ IdleCache /\ IdleCollate

\* line 179-180: one more step of "for i in range(maxlen)"
StepBegin ==
    /\ pc = "for_i"
    /\ i < cfg.maxlen
    /\ hyps_best_kept' = <<>>
    /\ cands' = <<>>
    /\ h' = 1
    /\ pc' = "for_hyp"
    /\ UNCHANGED <<cfg, i, hyps, ended_hyps, nbest_hyps>>
    /\ UNCHANGED featVars /\ UNCHANGED cacheVars /\ UNCHANGED collateVars

\* lines 181-218: the body of "for hyp in hyps" for the h-th hypothesis
Extend ==
    /\ pc = "for_hyp"
    /\ h <= Len(hyps)
    /\ cfg.n_tgt_vocab >= cfg.beam
    /\ \E best \in DecoderTopk(cfg, hyps[h].yseq) :
           LET made == new_hyps(hyps[h], best, cfg.beam)
           IN  /\ hyps_best_kept' = prune(hyps_best_kept \o made, cfg.beam)
               /\ cands' = cands \o made
    /\ h' = h + 1
    /\ UNCHANGED <<cfg, pc, i, hyps, ended_hyps, nbest_hyps>>
    /\ UNCHANGED featVars /\ UNCHANGED cacheVars /\ UNCHANGED collateVars

\* lines 204-205: torch.topk raises when k exceeds the size of the dimension
TopkRaises ==
    /\ pc = "for_hyp"
    /\ h <= Len(hyps)
    /\ cfg.n_tgt_vocab < cfg.beam
    /\ pc' = "raised"
    /\ UNCHANGED <<cfg, i, h, hyps, hyps_best_kept, ended_hyps, nbest_hyps, cands>>
    /\ UNCHANGED featVars /\ UNCHANGED cacheVars /\ UNCHANGED collateVars

\* lines 220-238: the end of step i
StepEnd ==
    /\ pc = "for_hyp"
    /\ h > Len(hyps)
    /\ LET kept == add_eos(hyps_best_kept, i, cfg.maxlen)
       IN  /\ hyps_best_kept' = kept
           /\ ended_hyps' = ended_hyps \o SelectSeq(kept, is_ended)
           /\ hyps' = SelectSeq(kept, LAMBDA hyp : ~is_ended(hyp))
    /\ i' = i + 1
    /\ pc' = "for_i"
    /\ UNCHANGED <<cfg, h, nbest_hyps, cands>>
    /\ UNCHANGED featVars /\ UNCHANGED cacheVars /\ UNCHANGED collateVars

\* lines 241-246
Return ==
    /\ pc = "for_i"
    /\ i >= cfg.maxlen
    /\ nbest_hyps' = select_nbest(ended_hyps, cfg.nbest)
    /\ pc' = "done"
    /\ UNCHANGED <<cfg, i, h, hyps, hyps_best_kept, ended_hyps, cands>>
    /\ UNCHANGED featVars /\ UNCHANGED cacheVars /\ UNCHANGED collateVars

NextBeam == StepBegin \/ Extend \/ TopkRaises \/ StepEnd \/ Return

SpecBeam == InitBeam /\ [][NextBeam]_vars
SpecToy == InitToy /\ [][NextBeam]_vars

Range(list) == {list[k] : k \in 1..Len(list)}
Running == pc \in {"for_i", "for_hyp"}

\* C2: when the loop halts after maxlen steps the ended set is non-empty, and
\* the returned n-best list holds at least one hypothesis, whether or not a
\* hypothesis emitted end-of-sequence before the last step.
C2_EndedNonEmpty ==
    /\ (pc = "for_i" /\ i >= cfg.maxlen) => Len(ended_hyps) >= 1
    /\ pc = "done" => (Len(ended_hyps) >= 1 /\ Len(nbest_hyps) >= 1)

\* C2 witness: the decode has returned, it took several steps, and no
\* hypothesis emitted end-of-sequence by itself: every ended hypothesis got
\* it appended in the final loop.
C2_Witness ==
    /\ pc = "done"
    /\ cfg.maxlen >= 2
    /\ Len(nbest_hyps) >= 1
    /\ \A e \in Range(ended_hyps) :
           /\ Len(e.yseq) = cfg.maxlen + 2
           /\ e.yseq[cfg.maxlen + 1] # eos_id

\* C3: a kept hypothesis ending with end-of-sequence is moved to the ended set
\* in the same step and is not extended again: while the loop runs no active
\* hypothesis ends with end-of-sequence or is in the ended set, a step's end
\* sends each kept hypothesis to the ended set or to the active set by its
\* last token, and the ended set only grows at its end.
C3_EndedAreFinal ==
    /\ [](Running => \A k \in 1..Len(hyps) :
                         ~is_ended(hyps[k]) /\ hyps[k] \notin Range(ended_hyps))
    /\ [][/\ Len(ended_hyps') >= Len(ended_hyps)
          /\ SubSeq(ended_hyps', 1, Len(ended_hyps)) = ended_hyps]_vars
    /\ [][(pc = "for_hyp" /\ pc' = "for_i") =>
             \A x \in Range(hyps_best_kept') :
                 IF x.yseq[Len(x.yseq)] = eos_id
                 THEN /\ x \in Range(SubSeq(ended_hyps', Len(ended_hyps) + 1, Len(ended_hyps')))
                      /\ x \notin Range(hyps')
                 ELSE /\ x \in Range(hyps')
                      /\ x \notin Range(ended_hyps')]_vars

\* C3 witness: a hypothesis ended in an earlier step and the loop is extending
\* the hypotheses that remained.
C3_Witness ==
    /\ pc = "for_hyp"
    /\ i >= 1
    /\ h >= 2
    /\ Len(ended_hyps) >= 1
    /\ Len(hyps_best_kept) >= 1

\* C4: the hypotheses kept in a step are the beam highest-scoring candidates
\* among all the candidates generated in the step so far (all of them when
\* fewer than beam exist), the same as one sort and cut after merging; at most
\* beam hypotheses are active.
C4_GlobalTopBeam ==
    /\ Len(hyps) <= cfg.beam
    /\ pc = "for_hyp" =>
        /\ Len(hyps_best_kept) = Min(cfg.beam, Len(cands))
        /\ Cardinality(Range(hyps_best_kept)) = Len(hyps_best_kept)
        /\ Range(hyps_best_kept) \subseteq Range(cands)
        /\ \A c \in Range(cands) \ Range(hyps_best_kept), k \in Range(hyps_best_kept) :
               c.score <= k.score
        /\ hyps_best_kept = SliceTo(sorted_by_score(cands), cfg.beam)

\* C4 witness: two hypotheses have been extended, more candidates than beam
\* were generated, and a candidate of the second hypothesis has displaced one
\* of the first.
C4_Witness ==
    /\ pc = "for_hyp"
    /\ Len(hyps) = 2
    /\ h > Len(hyps)
    /\ Len(cands) > cfg.beam
    /\ \E k \in (cfg.beam + 1)..Len(cands) : cands[k] \in Range(hyps_best_kept)
    /\ \E k \in 1..cfg.beam : cands[k] \notin Range(hyps_best_kept)

\* C5: the decode returns min(nbest, number of ended hypotheses) hypotheses,
\* all from the ended set, in non-increasing score order, and no ended
\* hypothesis left out has a strictly higher score than a returned one.
C5_NBest ==
    pc = "done" =>
        /\ Len(nbest_hyps) = Min(cfg.nbest, Len(ended_hyps))
        /\ Cardinality(Range(nbest_hyps)) = Len(nbest_hyps)
        /\ Range(nbest_hyps) \subseteq Range(ended_hyps)
        /\ \A a, b \in 1..Len(nbest_hyps) : a < b => nbest_hyps[a].score >= nbest_hyps[b].score
        /\ \A e \in Range(ended_hyps) \ Range(nbest_hyps), r \in Range(nbest_hyps) :
               e.score <= r.score

\* C5 witness: more hypotheses ended than are returned, and the best one was
\* not the first to end.
C5_Witness ==
    /\ pc = "done"
    /\ cfg.nbest = 2
    /\ Len(ended_hyps) >= 3
    /\ Len(nbest_hyps) = 2
    /\ nbest_hyps[1] # ended_hyps[1]
    /\ nbest_hyps[1].score > nbest_hyps[2].score

\* C10 (as claimed): every hypothesis of the ended set begins with
\* start-of-sequence and holds end-of-sequence exactly once, as its last token.
C10_EndedShape ==
    \A e \in Range(ended_hyps) :
        /\ e.yseq[1] = sos_id
        /\ e.yseq[Len(e.yseq)] = eos_id
        /\ Cardinality({p \in 1..Len(e.yseq) : e.yseq[p] = eos_id}) = 1

AfterFirstStep == i >= 1
HasSosEos == \E e \in Range(ended_hyps) : e.yseq = <<sos_id, eos_id>>

\* C9 (as claimed): with beam 5, maxlen 100, a vocabulary of 4 ids and a
\* deterministic decoder ranking end-of-sequence highest at step 1, the first
\* step completes and the ended set then holds [SOS, EOS].
C9_ToyVocab4 ==
    cfg.n_tgt_vocab = 4 => (pc # "raised" /\ (AfterFirstStep => HasSosEos))

\* C9 (amended): the same with a vocabulary of at least beam = 5 ids; with 4
\* ids topk raises in the first step and no hypothesis ever ends.
C9_ToyVocab5 ==
    /\ cfg.n_tgt_vocab >= cfg.beam => (pc # "raised" /\ (AfterFirstStep => HasSosEos))
    /\ cfg.n_tgt_vocab < cfg.beam => (~AfterFirstStep /\ ended_hyps = <<>>)

\* C9 witness: the first step of the toy decode over 5 ids is over and the
\* ended set is exactly [SOS, EOS] with the top log-probability.
C9_Witness ==
    /\ cfg.beam = 5 /\ cfg.maxlen = 100 /\ cfg.n_tgt_vocab = 5
    /\ pc = "for_i"
    /\ i = 1
    /\ ended_hyps = <<[score |-> 0 - 1, yseq |-> <<sos_id, eos_id>>]>>
    /\ Len(hyps) = 4

====
